---- MODULE Spec2Model ----
(***************************************************************************)
(* Lead-capture form: the zustand session store (src/lib/lead-store.ts)    *)
(* and the submission flow of the LeadCaptureForm component                *)
(* (handleSubmit, handleInputChange, the "Submit Another Lead" button).    *)
(*                                                                         *)
(* Text values (name, email) are sequences of one-character strings, so    *)
(* that emptiness, whitespace and the e-mail shape are computed from the   *)
(* characters.  The industry is one value of an enumeration and is kept    *)
(* as a string; "" is the empty selection.                                 *)
(***************************************************************************)
EXTENDS Integers, Sequences, FiniteSets, Bags

(***************************************************************************)
(* Bounds of the model.                                                    *)
(***************************************************************************)
\* number of handleSubmit invocations that can be suspended at the same time
MaxInFlight == 2

(***************************************************************************)
(* Values.                                                                 *)
(***************************************************************************)
\* error: string | null
Null == "<null>"

Empty == << >>
NameBlank == <<" ">>
NameAda == <<"A">>
EmailBad == <<"a", "@", "b">>
EmailA == <<"a", "@", "b", ".", "c">>
EmailD == <<"d", "@", "b", ".", "c">>

\* what the user can type into the two text inputs
Names == {Empty, NameBlank, NameAda}
Emails == {Empty, EmailBad, EmailA, EmailD}

\* the SelectItem values of the industry control
AllowedIndustries ==
    {"technology", "healthcare", "finance", "education",
     "retail", "manufacturing", "consulting", "other"}

\* the selections the model exercises: none, and one allowed value
Industries == {"", "technology"}

\* the values new Date().toISOString() yields
Times == {"T1"}

Fields == <<"name", "email", "industry">>

EmptyForm == [name |-> Empty, email |-> Empty, industry |-> ""]

\* the outcome of a remote call: a result without error, a result carrying
\* an error object, a rejected promise, or the abort fired by the 10 s timer
Outcomes == {"ok", "error", "throw", "timeout"}

\* JavaScript truthiness of a string: only the empty string is falsy
Falsy(s) == s = Empty

(***************************************************************************)
(* Validation (src/lib/validation.ts is not part of the sources at hand;   *)
(* modelled from the specification, section 4.1).                          *)
(***************************************************************************)
IsSpace(c) == c \in {" ", "\t", "\n"}

\* s.trim() is empty
IsBlank(s) == \A i \in 1..Len(s) : IsSpace(s[i])

\* [^\s@]+
IsPart(s) == Len(s) > 0 /\ \A i \in 1..Len(s) : ~IsSpace(s[i]) /\ s[i] # "@"

\* ^[^\s@]+@[^\s@]+\.[^\s@]+$
IsEmailShape(s) ==
    \E i \in 1..Len(s) : \E j \in 1..Len(s) :
        /\ i < j
        /\ s[i] = "@"
        /\ s[j] = "."
        /\ IsPart(SubSeq(s, 1, i - 1))
        /\ IsPart(SubSeq(s, i + 1, j - 1))
        /\ IsPart(SubSeq(s, j + 1, Len(s)))

FieldFails(form, f) ==
    CASE f = "name" -> IsBlank(form.name)
      [] f = "email" -> ~IsEmailShape(form.email)
      [] f = "industry" -> form.industry \notin AllowedIndustries

\* the ValidationErrors of a form, one per offending field, in field order
validateLeadForm(form) ==
    SelectSeq(Fields, LAMBDA f : FieldFails(form, f))

(***************************************************************************)
(* Session store (src/lib/lead-store.ts).                                  *)
(***************************************************************************)
VARIABLES
    submitted,        \* LeadStore.submitted
    sessionLeads,     \* LeadStore.sessionLeads
    error,            \* LeadStore.error
    isLoading,        \* LeadStore.isLoading
    formData,         \* component state: the three field values
    validationErrors, \* component state: fields with a displayed error
    att,              \* the suspended handleSubmit invocations (a bag)
    last              \* the operation that produced the current state

vars == <<submitted, sessionLeads, error, isLoading, formData,
          validationErrors, att, last>>

NoLead == [none |-> TRUE]

\* the locals of a handleSubmit invocation before it did anything
IdleAtt ==
    [pc |-> "idle", lead |-> NoLead, errors |-> << >>,
     insertCalls |-> 0, insertRes |-> "none",
     notifyCalls |-> 0, notifyRes |-> "none"]

HasEmail(leads, email) == \E i \in 1..Len(leads) : leads[i].email = email

\* addLead without the duplicate check
addLeadNoDuplicateCheck(leads, lead) ==
    IF Falsy(lead.name) \/ Falsy(lead.email)
    THEN [sessionLeads |-> leads,
          error |-> "Invalid lead data: name and email are required"]
    ELSE [sessionLeads |-> Append(leads, lead), error |-> Null]

\* addLead replacing the stored lead of the same email instead of rejecting
addLeadReplaces(leads, lead) ==
    IF Falsy(lead.name) \/ Falsy(lead.email)
    THEN [sessionLeads |-> leads,
          error |-> "Invalid lead data: name and email are required"]
    ELSE IF HasEmail(leads, lead.email)
    THEN [sessionLeads |->
              [i \in DOMAIN leads |->
                  IF leads[i].email = lead.email THEN lead ELSE leads[i]],
          error |-> "A lead with this email already exists in this session"]
    ELSE [sessionLeads |-> Append(leads, lead), error |-> Null]

\* addLead that does not clear the previous error on success
addLeadKeepsError(leads, lead) ==
    IF Falsy(lead.name) \/ Falsy(lead.email)
    THEN [sessionLeads |-> leads,
          error |-> "Invalid lead data: name and email are required"]
    ELSE IF HasEmail(leads, lead.email)
    THEN [sessionLeads |-> leads,
          error |-> "A lead with this email already exists in this session"]
    ELSE [sessionLeads |-> Append(leads, lead), error |-> error]

\* addLead: the new sessionLeads and error
addLead(leads, lead) ==
    IF Falsy(lead.name) \/ Falsy(lead.email)
    THEN [sessionLeads |-> leads,
          error |-> "Invalid lead data: name and email are required"]
    ELSE IF HasEmail(leads, lead.email)
    THEN [sessionLeads |-> leads,
          error |-> "A lead with this email already exists in this session"]
    ELSE [sessionLeads |-> Append(leads, lead), error |-> Null]

Init ==
    /\ submitted = FALSE
    /\ sessionLeads = << >>
    /\ error = Null
    /\ isLoading = FALSE
    /\ formData = EmptyForm
    /\ validationErrors = << >>
    /\ att = EmptyBag
    /\ last = [op |-> "init"]

(***************************************************************************)
(* Store operations called directly (any caller of useLeadStore).          *)
(***************************************************************************)
\* the leads a direct caller passes to addLead
StoreLeads ==
    [name : {Empty, NameBlank, NameAda}, email : {Empty, EmailBad, EmailA, EmailD},
     industry : {"", "technology"}, submitted_at : Times]

\* the leads a direct caller passes while submissions are in flight
DirectLeads ==
    [name : {Empty, NameAda}, email : {EmailA},
     industry : {"technology"}, submitted_at : Times]

\* a setSubmitted that also clears the error
setSubmittedClearsError(flag) ==
    /\ submitted' = flag
    /\ error' = Null
    /\ UNCHANGED <<sessionLeads, isLoading, formData, validationErrors, att>>

\* set({ submitted })
setSubmitted(flag) ==
    /\ submitted' = flag
    /\ UNCHANGED <<sessionLeads, error, isLoading, formData,
                   validationErrors, att>>

\* addLead called with a lead
StoreAddLead(lead) ==
    /\ sessionLeads' = addLead(sessionLeads, lead).sessionLeads
    /\ error' = addLead(sessionLeads, lead).error
    /\ UNCHANGED <<submitted, isLoading, formData, validationErrors, att>>

\* set({ error: null })
clearError ==
    /\ error' = Null
    /\ UNCHANGED <<submitted, sessionLeads, isLoading, formData,
                   validationErrors, att>>

\* set({ isLoading: loading })
setLoading(flag) ==
    /\ isLoading' = flag
    /\ UNCHANGED <<submitted, sessionLeads, error, formData,
                   validationErrors, att>>

(***************************************************************************)
(* The form component (LeadCaptureForm).                                   *)
(***************************************************************************)
\* a form that accepts no submit event while the store is loading
FormRenderedAndIdle == ~submitted /\ ~isLoading

\* the entry form, with its inputs and its onSubmit handler, is rendered
\* only while submitted is false; otherwise the success view is
FormRendered == ~submitted

\* the count the success view shows: "You're #{sessionLeads.length}"
SessionCount == Len(sessionLeads)

\* handleInputChange(field, value)
handleInputChange(field, value) ==
    /\ FormRendered
    /\ formData' = [formData EXCEPT ![field] = value]
    /\ validationErrors' = SelectSeq(validationErrors, LAMBDA f : f # field)
    /\ last' = [op |-> "input"]
    /\ UNCHANGED <<submitted, sessionLeads, error, isLoading, att>>

\* the user edits one field, with a value of the given sets
InputChangeOf(names, emails, industries) ==
    \/ \E v \in names : handleInputChange("name", v)
    \/ \E v \in emails : handleInputChange("email", v)
    \/ \E v \in industries : handleInputChange("industry", v)

InputChange == InputChangeOf(Names, Emails, Industries)

\* the candidate lead built without the industry of the form
NewLeadWithoutIndustry(form, t) ==
    [name |-> form.name, email |-> form.email, industry |-> "",
     submitted_at |-> t]

\* a candidate lead that loses the email of the form
NewLeadWithoutEmail(form, t) ==
    [name |-> form.name, email |-> Empty, industry |-> form.industry,
     submitted_at |-> t]

\* the candidate lead built from the form once validation passed
NewLead(form, t) ==
    [name |-> form.name, email |-> form.email, industry |-> form.industry,
     submitted_at |-> t]

Suspend(r) == att (+) SetToBag({r})
Resume(r) == att (-) SetToBag({r})
InFlight == BagToSet(att)

\* the handler going on whatever validation returned
SubmitProceedsAlways(errors) == TRUE

\* a handler that looks the email up in the session before the remote calls
SubmitProceedsIfNewEmail(errors) ==
    Len(errors) = 0 /\ ~HasEmail(sessionLeads, formData.email)

\* if (errors.length === 0): the handler goes on to the remote calls
SubmitProceeds(errors) == Len(errors) = 0

\* handleSubmit up to its first await: clearError, setLoading(true),
\* validation, and either the end of the handler (validation errors) or
\* the database insert being issued
Submit(t) ==
    /\ FormRendered
    /\ BagCardinality(att) < MaxInFlight
    /\ LET errors == validateLeadForm(formData)
           r == [pc |-> "insert", lead |-> NewLead(formData, t),
                 errors |-> errors,
                 insertCalls |-> 1, insertRes |-> "pending",
                 notifyCalls |-> 0, notifyRes |-> "none"]
       IN
        /\ error' = Null
        /\ validationErrors' = errors
        /\ IF SubmitProceeds(errors)
           THEN /\ isLoading' = TRUE
                /\ att' = Suspend(r)
                /\ last' = [op |-> "submit", rec |-> r]
           ELSE /\ isLoading' = FALSE
                /\ att' = att
                /\ last' = [op |-> "submit",
                            rec |-> [IdleAtt EXCEPT !.pc = "done",
                                                    !.errors = errors]]
    /\ UNCHANGED <<submitted, sessionLeads, formData>>

\* dbError not looked at: only a rejected or aborted call counts as failure
InsertFailedIgnoresDbError(outcome) == outcome \in {"throw", "timeout"}

\* the abort of the timer not treated as a failure
InsertFailedIgnoresAbort(outcome) == outcome \in {"error", "throw"}

\* a handler that never looks at the result of the insert
InsertFailedNever(outcome) == FALSE

\* the insert failed: dbError is set (the handler throws), or the awaited
\* call rejected or was aborted by its timer
InsertFailed(outcome) == outcome # "ok"

\* an outer catch block that returns without setLoading(false)
CatchLoadingForgotten == isLoading

\* the loading flag the outer catch block of handleSubmit leaves behind
CatchLoading == FALSE

\* handleSubmit from the return of the insert to the next await or the end
InsertReturn(r, outcome) ==
    /\ r.pc = "insert"
    /\ IF InsertFailed(outcome)
       THEN /\ isLoading' = CatchLoading
            /\ att' = Resume(r)
            /\ last' = [op |-> "insertReturn", outcome |-> outcome,
                        rec |-> [r EXCEPT !.pc = "done",
                                          !.insertRes = outcome]]
       ELSE LET n == [r EXCEPT !.pc = "notify",
                               !.insertRes = outcome,
                               !.notifyCalls = @ + 1,
                               !.notifyRes = "pending"]
            IN /\ isLoading' = isLoading
               /\ att' = Resume(r) (+) SetToBag({n})
               /\ last' = [op |-> "insertReturn", outcome |-> outcome,
                           rec |-> n]
    /\ UNCHANGED <<submitted, sessionLeads, error, formData,
                   validationErrors>>

\* an aborted notify call taken for a delivered one
EmailSentUnlessRejected(outcome) == outcome \in {"ok", "timeout"}

\* the catch branch of the notify call flagging the email as sent
EmailSentUnlessError(outcome) == outcome # "error"

\* the emailSent flag attached to the lead for a notify outcome
EmailSent(outcome) == outcome = "ok"

\* handleSubmit from the return of the notify call to its end: addLead,
\* setSubmitted(true), form reset, setLoading(false)
NotifyReturn(r, outcome) ==
    /\ r.pc = "notify"
    /\ LET lead == [name |-> r.lead.name,
                    email |-> r.lead.email,
                    industry |-> r.lead.industry,
                    submitted_at |-> r.lead.submitted_at,
                    emailSent |-> EmailSent(outcome)]
           res == addLead(sessionLeads, lead)
       IN
        /\ sessionLeads' = res.sessionLeads
        /\ error' = res.error
        /\ last' = [op |-> "notifyReturn", outcome |-> outcome,
                    rec |-> [r EXCEPT !.pc = "done",
                                      !.lead = lead,
                                      !.notifyRes = outcome]]
    /\ submitted' = TRUE
    /\ formData' = EmptyForm
    /\ isLoading' = FALSE
    /\ att' = Resume(r)
    /\ UNCHANGED validationErrors

\* a reset that also empties the session collection
ResetDropsLeads ==
    /\ submitted
    /\ submitted' = FALSE
    /\ sessionLeads' = << >>
    /\ last' = [op |-> "reset"]
    /\ UNCHANGED <<error, isLoading, formData, validationErrors, att>>

\* a reset that also clears the store error
ResetClearsError ==
    /\ submitted
    /\ submitted' = FALSE
    /\ error' = Null
    /\ last' = [op |-> "reset"]
    /\ UNCHANGED <<sessionLeads, isLoading, formData, validationErrors, att>>

\* the "Submit Another Lead" button of the success view
Reset ==
    /\ submitted
    /\ submitted' = FALSE
    /\ last' = [op |-> "reset"]
    /\ UNCHANGED <<sessionLeads, error, isLoading, formData,
                   validationErrors, att>>

SubmitStep == \E t \in Times : Submit(t)
InsertStep == \E r \in InFlight : \E o \in Outcomes : InsertReturn(r, o)
NotifyStep == \E r \in InFlight : \E o \in Outcomes : NotifyReturn(r, o)

\* the controller alone
Next ==
    \/ InputChange
    \/ SubmitStep
    \/ InsertStep
    \/ NotifyStep
    \/ Reset

Spec == Init /\ [][Next]_vars

\* a submit event that arrives when no attempt is in flight
SubmitAlone == att = EmptyBag /\ SubmitStep

\* the controller when the user waits for the end of an attempt before
\* submitting again, as the disabled submit button makes them
NextSeq ==
    \/ InputChange
    \/ SubmitAlone
    \/ InsertStep
    \/ NotifyStep
    \/ Reset

SpecSeq == Init /\ [][NextSeq]_vars

\* the controller when every remote call in flight returns or is aborted by
\* its 10 second timeout
SpecLive == Spec /\ WF_vars(InsertStep) /\ WF_vars(NotifyStep)

\* direct calls of the store operations alone, each one recorded
StoreStep ==
    \/ \E f \in BOOLEAN :
          setSubmitted(f) /\ last' = [op |-> "setSubmitted", flag |-> f]
    \/ \E l \in StoreLeads :
          StoreAddLead(l) /\ last' = [op |-> "addLead", lead |-> l]
    \/ clearError /\ last' = [op |-> "clearError"]
    \/ \E f \in BOOLEAN :
          setLoading(f) /\ last' = [op |-> "setLoading", flag |-> f]

SpecStore == Init /\ [][StoreStep]_vars

\* the controller interleaved with direct calls of the store operations
DirectStep ==
    /\ \/ \E f \in BOOLEAN : setSubmitted(f)
       \/ \E l \in DirectLeads : StoreAddLead(l)
       \/ clearError
       \/ \E f \in BOOLEAN : setLoading(f)
    /\ last' = [op |-> "direct"]

\* with direct callers around, the user types the valid values only (the
\* empty fields of a fresh or reset form still fail validation)
NextAll ==
    \/ InputChangeOf({NameAda}, {EmailA, EmailD}, {"technology"})
    \/ SubmitStep
    \/ InsertStep
    \/ NotifyStep
    \/ Reset
    \/ DirectStep

SpecAll == Init /\ [][NextAll]_vars

(***************************************************************************)
(* Properties.                                                             *)
(***************************************************************************)
\* some lead of the sequence carries the email
EmailStored(leads, email) ==
    Cardinality({i \in DOMAIN leads : leads[i].email = email}) > 0

\* the records of the suspended invocations and of the one that just ran
Records == InFlight \cup (IF "rec" \in DOMAIN last THEN {last.rec} ELSE {})

\* C1: in every submission attempt the notify call is invoked only after
\* that attempt's insert was issued and returned without error, and at most
\* once; an attempt whose insert failed has invoked no notify call.
C1_NotifyOnlyAfterInsert ==
    \A r \in Records :
        /\ r.insertCalls <= 1
        /\ r.notifyCalls <= 1
        /\ r.notifyCalls = 1 => r.insertCalls = 1 /\ r.insertRes = "ok"
        /\ r.pc = "notify" => r.notifyCalls = 1
        /\ r.insertRes \in {"error", "throw", "timeout"} => r.notifyCalls = 0
        /\ r.insertRes = "pending" => r.notifyCalls = 0

\* an insert returned without error and the notify call is now pending
C1_Witness ==
    /\ last.op = "insertReturn"
    /\ last.outcome = "ok"
    /\ last.rec \in InFlight
    /\ last.rec.pc = "notify"
    /\ last.rec.notifyCalls = 1

\* C2: a submission whose validation returns at least one error issues no
\* remote call, adds no lead, leaves submitted unchanged and ends with
\* loading = false.
C2_InvalidSubmitIsLocal ==
    [][(last'.op = "submit" /\ Len(last'.rec.errors) > 0) =>
         /\ att' = att
         /\ last'.rec.pc = "done"
         /\ last'.rec.insertCalls = 0
         /\ last'.rec.notifyCalls = 0
         /\ sessionLeads' = sessionLeads
         /\ submitted' = submitted
         /\ isLoading' = FALSE]_vars

\* a submission with validation errors ended while another attempt was
\* still suspended (so loading was true before it)
C2_Witness ==
    /\ last.op = "submit"
    /\ Len(last.rec.errors) > 0
    /\ last.rec.pc = "done"
    /\ InFlight # {}
    /\ ~isLoading

\* C3: an attempt whose insert fails (error result, thrown exception or
\* timeout) adds no lead, makes no notify call, leaves submitted as it was
\* (false stays false) and ends with loading = false.
C3_InsertFailureStoresNothing ==
    [][(last'.op = "insertReturn" /\ last'.outcome # "ok") =>
         /\ sessionLeads' = sessionLeads
         /\ submitted' = submitted
         /\ (~submitted => ~submitted')
         /\ isLoading' = FALSE
         /\ last'.rec.pc = "done"
         /\ last'.rec.notifyCalls = 0
         /\ BagCardinality(att') = BagCardinality(att) - 1]_vars

\* an insert timed out: the attempt is over, nothing stored, form still shown
C3_Witness ==
    /\ last.op = "insertReturn"
    /\ last.outcome = "timeout"
    /\ last.rec.pc = "done"
    /\ sessionLeads = << >>
    /\ ~submitted
    /\ ~isLoading

\* C4: after an attempt whose insert failed or timed out, the store's error
\* field is non-null.
C4_InsertFailureSetsError ==
    (last.op = "insertReturn" /\ last.outcome # "ok") => error # Null

\* C5 as stated: every attempt with a successful insert and a failing or
\* timed-out notify call stores its lead with emailSent = false, sets no
\* session error and reaches submitted = true, loading = false.
C5_AsStated ==
    [][(last'.op = "notifyReturn" /\ last'.outcome # "ok") =>
         /\ last'.rec.lead.emailSent = FALSE
         /\ sessionLeads' = Append(sessionLeads, last'.rec.lead)
         /\ error' = Null
         /\ submitted'
         /\ ~isLoading']_vars

\* C5 (amended): an attempt with a successful insert and a failing or
\* timed-out notify call always reaches submitted = true, loading = false
\* with emailSent = false on its lead; the lead is stored, and no session
\* error is set, when its email is not already in the session at that
\* moment; otherwise addLead rejects it (nothing stored, error set).
C5_NotifyFailureStillSucceeds ==
    [][(last'.op = "notifyReturn" /\ last'.outcome # "ok") =>
         /\ last'.rec.lead.emailSent = FALSE
         /\ last'.rec.insertRes = "ok"
         /\ submitted'
         /\ ~isLoading'
         /\ IF EmailStored(sessionLeads, last'.rec.lead.email)
            THEN sessionLeads' = sessionLeads /\ error' # Null
            ELSE /\ sessionLeads' = Append(sessionLeads, last'.rec.lead)
                 /\ error' = Null]_vars

\* a notify call timed out and the lead was stored with emailSent = false
C5_Witness ==
    /\ last.op = "notifyReturn"
    /\ last.outcome = "timeout"
    /\ Len(sessionLeads) > 0
    /\ sessionLeads[Len(sessionLeads)] = last.rec.lead
    /\ sessionLeads[Len(sessionLeads)].emailSent = FALSE
    /\ error = Null
    /\ submitted
    /\ ~isLoading

\* C6: a submission of a valid form whose two remote calls succeed, with
\* an email that is not in the session when the lead is added (with attempts
\* that do not overlap: when the form is submitted), appends exactly one
\* lead at the end, carrying the submitted name, email and industry, a
\* generated submitted_at and emailSent = true; submitted becomes true and
\* the count of the success view grows by exactly 1.
C6_RoundTrip ==
    [][/\ (last'.op = "submit" /\ last'.rec.pc = "insert") =>
            /\ last'.rec.lead.name = formData.name
            /\ last'.rec.lead.email = formData.email
            /\ last'.rec.lead.industry = formData.industry
            /\ last'.rec.lead.submitted_at \in Times
       /\ (last'.op = "insertReturn" /\ last'.outcome = "ok") =>
            \E r \in InFlight : last'.rec.lead = r.lead
       /\ (/\ last'.op = "notifyReturn"
           /\ last'.outcome = "ok"
           /\ ~EmailStored(sessionLeads, last'.rec.lead.email)) =>
            /\ \E r \in InFlight :
                 /\ r.pc = "notify"
                 /\ sessionLeads' =
                      Append(sessionLeads,
                             [name |-> r.lead.name,
                              email |-> r.lead.email,
                              industry |-> r.lead.industry,
                              submitted_at |-> r.lead.submitted_at,
                              emailSent |-> TRUE])
            /\ submitted'
            /\ SessionCount' = SessionCount + 1]_vars

\* Ada's lead is the one lead of the session after both calls succeeded
C6_Witness ==
    /\ last.op = "notifyReturn"
    /\ last.outcome = "ok"
    /\ sessionLeads =
         <<[name |-> NameAda, email |-> EmailA, industry |-> "technology",
            submitted_at |-> "T1", emailSent |-> TRUE]>>
    /\ submitted
    /\ SessionCount = 1

\* a lead as the data model has it: name and email are not empty
IsLead(l) == l.name # Empty /\ l.email # Empty

EmailCount(leads, email) ==
    Cardinality({i \in DOMAIN leads : leads[i].email = email})

\* C7: addLead called with a lead whose email an earlier call has stored
\* leaves the collection unchanged, with exactly one lead of that email in
\* it, and sets the error; in particular two calls in a row with leads that
\* share the email leave one lead of that email and a non-null error.
C7_AddLeadIdempotentByRejection ==
    [][/\ (last'.op = "addLead" /\ EmailStored(sessionLeads, last'.lead.email))
            => /\ sessionLeads' = sessionLeads
               /\ EmailCount(sessionLeads', last'.lead.email) = 1
               /\ error' # Null
       /\ (/\ last.op = "addLead"
           /\ last'.op = "addLead"
           /\ IsLead(last.lead)
           /\ IsLead(last'.lead)
           /\ last.lead.email = last'.lead.email)
            => /\ sessionLeads' = sessionLeads
               /\ EmailCount(sessionLeads', last'.lead.email) = 1
               /\ error' # Null]_vars

\* the second of two calls with the same email was rejected as a duplicate
C7_Witness ==
    /\ last.op = "addLead"
    /\ IsLead(last.lead)
    /\ error = "A lead with this email already exists in this session"
    /\ EmailCount(sessionLeads, last.lead.email) = 1
    /\ \A i \in DOMAIN sessionLeads : sessionLeads[i] # last.lead

\* C8: no two leads of the session have the same email, and every stored
\* lead has a non-empty name and a non-empty email.
C8_UniqueEmails ==
    /\ \A i, j \in DOMAIN sessionLeads :
         sessionLeads[i].email = sessionLeads[j].email => i = j
    /\ \A i \in DOMAIN sessionLeads :
         Len(sessionLeads[i].name) > 0 /\ Len(sessionLeads[i].email) > 0

\* an attempt stored its lead while an overlapping attempt with the same
\* email is still suspended: its addLead is yet to come
C8_Witness ==
    /\ last.op = "notifyReturn"
    /\ error = Null
    /\ Len(sessionLeads) > 0
    /\ sessionLeads[Len(sessionLeads)] = last.rec.lead
    /\ \E r \in InFlight : r.lead.email = last.rec.lead.email

C10_IndustryRequired ==
    (last.op = "addLead" /\ last.lead.industry = "") =>
        /\ error # Null
        /\ \A i \in DOMAIN sessionLeads : sessionLeads[i] # last.lead

\* C11: "Submit Another Lead" returns to the entry form with empty form
\* fields and leaves the leads and their count unchanged; an attempt whose
\* insert succeeded, with an email different from all stored ones, then
\* raises the count by one.
C11_ResetKeepsLeads ==
    [][/\ last'.op = "reset" =>
            /\ submitted /\ ~submitted'
            /\ formData' = EmptyForm
            /\ sessionLeads' = sessionLeads
            /\ SessionCount' = SessionCount
       /\ (/\ last'.op = "notifyReturn"
           /\ ~EmailStored(sessionLeads, last'.rec.lead.email)) =>
            /\ last'.rec.insertRes = "ok"
            /\ SessionCount' = SessionCount + 1]_vars

\* after one stored lead and a reset, a second submission with another
\* email was stored: the count went from 1 to 2
C11_Witness ==
    /\ last.op = "notifyReturn"
    /\ SessionCount = 2
    /\ sessionLeads[1].email # sessionLeads[2].email
    /\ att = EmptyBag
    /\ submitted

\* the store state
Store == [submitted |-> submitted, leads |-> sessionLeads,
          error |-> error, loading |-> isLoading]

\* the store state a failed insert leaves behind
AfterFailedInsert ==
    [submitted |-> submitted, leads |-> sessionLeads,
     error |-> error, loading |-> FALSE]

\* the store state a failed notify call leaves behind, for the lead of the
\* attempt
AfterFailedNotify(l) ==
    IF EmailStored(sessionLeads, l.email)
    THEN [submitted |-> TRUE, leads |-> sessionLeads,
          error |-> "A lead with this email already exists in this session",
          loading |-> FALSE]
    ELSE [submitted |-> TRUE,
          leads |-> Append(sessionLeads,
                           [name |-> l.name, email |-> l.email,
                            industry |-> l.industry,
                            submitted_at |-> l.submitted_at,
                            emailSent |-> FALSE]),
          error |-> Null, loading |-> FALSE]

\* C12: a remote call aborted by its timeout leaves the store (submitted,
\* leads with their emailSent flags, error, loading) in the state an
\* explicit error result of that call leaves it in, from the same prior
\* state and lead: one state, fixed by the prior state and the lead alone,
\* for the insert and one for the notify call.
C12_TimeoutIsError ==
    [][/\ (/\ last'.op = "insertReturn"
           /\ last'.outcome \in {"timeout", "error"}) =>
            /\ Store' = AfterFailedInsert
            /\ last'.rec.pc = "done"
       /\ (/\ last'.op = "notifyReturn"
           /\ last'.outcome \in {"timeout", "error"}) =>
            Store' = AfterFailedNotify(last'.rec.lead)]_vars

\* an insert timed out in a session that already holds a lead
C12_Witness ==
    /\ last.op = "insertReturn"
    /\ last.outcome = "timeout"
    /\ SessionCount = 1
    /\ ~isLoading

\* C13: every path of a submission attempt ends with loading false: a
\* submission that fails validation, a failed or timed out insert, and the
\* return of the notify call whatever its outcome; and, every remote call
\* returning or timing out, a loading state is always followed by a state
\* that is not loading.
C13_LoadingEnds ==
    /\ [][/\ (last'.op = "submit" /\ Len(last'.rec.errors) > 0) =>
               ~isLoading'
          /\ (last'.op = "insertReturn" /\ last'.outcome # "ok") =>
               (last'.rec.pc = "done" /\ ~isLoading')
          /\ last'.op = "notifyReturn" =>
               (last'.rec.pc = "done" /\ ~isLoading')
          /\ (isLoading /\ ~isLoading') =>
               last'.op \in {"submit", "insertReturn", "notifyReturn"}]_vars
    /\ (isLoading ~> ~isLoading)

\* a notify call timed out and the attempt, the only one, is over
C13_Witness ==
    /\ last.op = "notifyReturn"
    /\ last.outcome = "timeout"
    /\ att = EmptyBag
    /\ ~isLoading
    /\ SessionCount = 1

\* C14: the session collection changes only at the end of an attempt that
\* passed validation and whose insert succeeded, by appending one lead with
\* the name, email and industry of that attempt; and at the end of every
\* attempt whose insert succeeded, whatever the notify outcome, a lead with
\* the attempt's email is in the collection.
C14_StoredOnlyAfterInsert ==
    [][/\ sessionLeads' # sessionLeads =>
            /\ last'.op = "notifyReturn"
            /\ Len(last'.rec.errors) = 0
            /\ last'.rec.insertCalls = 1
            /\ last'.rec.insertRes = "ok"
            /\ Len(sessionLeads') = Len(sessionLeads) + 1
            /\ SubSeq(sessionLeads', 1, Len(sessionLeads)) = sessionLeads
            /\ \E r \in BagToSet(att) :
                  /\ r.pc = "notify"
                  /\ r.insertRes = "ok"
                  /\ sessionLeads'[Len(sessionLeads')].name = r.lead.name
                  /\ sessionLeads'[Len(sessionLeads')].email = r.lead.email
                  /\ sessionLeads'[Len(sessionLeads')].industry
                        = r.lead.industry
       /\ \A r \in BagToSet(att) :
            r.pc = "notify" => r.insertRes = "ok"
       /\ (\/ last'.op = "notifyReturn"
           \/ last'.op = "insertReturn" /\ last'.rec.pc = "done") =>
            (last'.rec.insertRes = "ok" <=>
               /\ last'.op = "notifyReturn"
               /\ EmailStored(sessionLeads', last'.rec.lead.email))]_vars

\* the insert succeeded, the notify call threw, and the lead is stored
C14_Witness ==
    /\ last.op = "notifyReturn"
    /\ last.outcome = "throw"
    /\ last.rec.insertRes = "ok"
    /\ EmailStored(sessionLeads, last.rec.lead.email)
    /\ SessionCount = 1

\* C15: across every step (the four store operations called directly,
\* submission steps and reset) the previous sequence of leads is a prefix of
\* the new one, so no stored lead is removed, reordered or changed, its
\* emailSent flag included.
C15_AppendOnly ==
    [][/\ Len(sessionLeads') >= Len(sessionLeads)
       /\ \A i \in 1..Len(sessionLeads) : sessionLeads'[i] = sessionLeads[i]
      ]_vars

\* two leads stored by the controller, the first with a failed notification
\* and the second with a delivered one
C15_Witness ==
    /\ last.op = "notifyReturn"
    /\ Len(sessionLeads) = 2
    /\ \A i \in 1..2 : "emailSent" \in DOMAIN sessionLeads[i]
    /\ ~sessionLeads[1].emailSent
    /\ sessionLeads[2].emailSent

DuplicateMessage == "A lead with this email already exists in this session"

\* C16: a submission that passes validation with an email already in the
\* session still issues the insert, and on insert success the notify call;
\* only the final addLead rejects it: the leads are unchanged, the store
\* error is the duplicate message, and submitted is set all the same. No
\* other step of the controller reports a duplicate.
C16_DuplicateFoundLast ==
    [][/\ (/\ last'.op = "submit"
           /\ Len(last'.rec.errors) = 0
           /\ EmailStored(sessionLeads, formData.email)) =>
            /\ last'.rec.pc = "insert"
            /\ last'.rec.insertCalls = 1
            /\ last'.rec.lead.email = formData.email
            /\ BagIn(last'.rec, att')
            /\ error' = Null
       /\ (last'.op = "insertReturn" /\ last'.outcome = "ok") =>
            /\ last'.rec.pc = "notify"
            /\ last'.rec.notifyCalls = 1
            /\ BagIn(last'.rec, att')
            /\ error' = error
       /\ (/\ last'.op = "notifyReturn"
           /\ EmailStored(sessionLeads, last'.rec.lead.email)) =>
            /\ sessionLeads' = sessionLeads
            /\ error' = DuplicateMessage
            /\ submitted'
       /\ (error' = DuplicateMessage /\ error # DuplicateMessage) =>
            last'.op = "notifyReturn"]_vars

\* a second submission of a stored email went through both remote calls and
\* was rejected by the store, and the success view is shown
C16_Witness ==
    /\ last.op = "notifyReturn"
    /\ last.outcome = "ok"
    /\ last.rec.insertCalls = 1
    /\ last.rec.notifyCalls = 1
    /\ error = DuplicateMessage
    /\ submitted
    /\ SessionCount = 1
    /\ att = EmptyBag

\* C17: the handler does not test the loading flag. While loading is true
\* and the form is shown, a submit event is accepted; if it passes
\* validation it starts a further attempt with its own insert next to the
\* ones in flight; and an attempt that ends sets loading false although
\* another one is still in flight.
C17_LoadingIsNoLock ==
    [][/\ (/\ isLoading
           /\ ~submitted
           /\ BagCardinality(att) < MaxInFlight) => ENABLED SubmitStep
       /\ (/\ last'.op = "submit"
           /\ isLoading
           /\ Len(last'.rec.errors) = 0) =>
            /\ att # EmptyBag
            /\ BagCardinality(att') = BagCardinality(att) + 1
            /\ last'.rec.pc = "insert"
            /\ last'.rec.insertCalls = 1
            /\ BagIn(last'.rec, att')
       /\ (/\ last'.op \in {"insertReturn", "notifyReturn"}
           /\ last'.rec.pc = "done"
           /\ att' # EmptyBag) => ~isLoading']_vars

\* two attempts were in flight; one has ended and left loading false while
\* the other is still waiting for its remote call
C17_Witness ==
    /\ last.op \in {"insertReturn", "notifyReturn"}
    /\ last.rec.pc = "done"
    /\ att # EmptyBag
    /\ ~isLoading

\* C18: when attempts do not overlap, loading is true exactly while an
\* attempt is in flight: true while its insert or its notify call is
\* pending, false when no attempt is in flight.
C18_LoadingWhileInFlight ==
    /\ isLoading <=> att # EmptyBag
    /\ BagCardinality(att) <= 1
    /\ \A r \in BagToSet(att) :
         /\ r.pc \in {"insert", "notify"}
         /\ r.pc = "insert" => r.insertRes = "pending"
         /\ r.pc = "notify" => r.notifyRes = "pending"

\* the notify call of the only attempt is pending, after an earlier attempt
\* stored a lead
C18_Witness ==
    /\ isLoading
    /\ SessionCount = 1
    /\ \E r \in BagToSet(att) : r.pc = "notify" /\ r.notifyRes = "pending"

\* C19: setSubmitted changes only submitted, clearError only error,
\* setLoading only loading, and an addLead that is rejected (empty name or
\* email, or an email already stored) only error.
C19_SettersFrame ==
    [][/\ last'.op = "setSubmitted" =>
            /\ submitted' = last'.flag
            /\ sessionLeads' = sessionLeads
            /\ error' = error
            /\ isLoading' = isLoading
       /\ last'.op = "clearError" =>
            /\ error' = Null
            /\ submitted' = submitted
            /\ sessionLeads' = sessionLeads
            /\ isLoading' = isLoading
       /\ last'.op = "setLoading" =>
            /\ isLoading' = last'.flag
            /\ submitted' = submitted
            /\ sessionLeads' = sessionLeads
            /\ error' = error
       /\ (/\ last'.op = "addLead"
           /\ \/ Len(last'.lead.name) = 0
              \/ Len(last'.lead.email) = 0
              \/ EmailStored(sessionLeads, last'.lead.email)) =>
            /\ error' # Null
            /\ submitted' = submitted
            /\ sessionLeads' = sessionLeads
            /\ isLoading' = isLoading]_vars

\* setSubmitted(true) ran in a loading store that holds a lead and an error
C19_Witness ==
    /\ last.op = "setSubmitted"
    /\ last.flag
    /\ submitted
    /\ isLoading
    /\ error # Null
    /\ SessionCount = 1

\* C20: through the controller (typing, submit, the returns of the remote
\* calls, reset), with validation rejecting an empty name and an empty
\* email, submitted implies that the session holds at least one lead, so the
\* count shown by the success view is never 0.
C20_SubmittedHasLead ==
    /\ submitted => Len(sessionLeads) > 0
    /\ ~FormRendered => SessionCount >= 1
    /\ \A r \in BagToSet(att) :
         Len(r.lead.name) > 0 /\ Len(r.lead.email) > 0

\* the success view after a submission the store rejected as a duplicate:
\* the count stays at the one lead stored before
C20_Witness ==
    /\ submitted
    /\ error = DuplicateMessage
    /\ SessionCount = 1
    /\ last.op = "notifyReturn"
    /\ last.outcome = "error"

\* addLead rejects the lead: empty name or email, or an email already stored
Rejected(leads, lead) ==
    \/ Len(lead.name) = 0
    \/ Len(lead.email) = 0
    \/ EmailStored(leads, lead.email)

\* C21 as stated: the store error becomes non-null only when addLead rejects
\* a lead, every submit leaves it null, reset does not change it, a failed
\* notify call whose lead is accepted does not change it, and once non-null
\* it stays as it is until the next submit.
C21_AsStated ==
    [][/\ (error' # Null /\ error' # error) =>
            /\ last'.op = "notifyReturn"
            /\ Rejected(sessionLeads, last'.rec.lead)
       /\ last'.op = "submit" => error' = Null
       /\ last'.op = "reset" => error' = error
       /\ (/\ last'.op = "notifyReturn"
           /\ last'.outcome # "ok"
           /\ ~Rejected(sessionLeads, last'.rec.lead)) => error' = error
       /\ (error # Null /\ last'.op # "submit") => error' = error]_vars

\* C21 (amended): the store error changes only at a submit, which leaves it
\* null also when validation fails, and at the end of an attempt, which
\* leaves addLead's verdict whatever the notify outcome: non-null if the
\* lead is rejected, null if it is accepted, also when the error was set by
\* another attempt. Typing, the return of an insert and reset leave it as
\* it is, so after reset a duplicate error is shown on the entry form until
\* the next submit or the end of another attempt that is still in flight.
C21_ErrorLifetime ==
    [][/\ error' # error => last'.op \in {"submit", "notifyReturn"}
       /\ last'.op = "submit" => error' = Null
       /\ last'.op = "reset" =>
            /\ error' = error
            /\ ~submitted'
       /\ last'.op \in {"input", "insertReturn"} => error' = error
       /\ last'.op = "notifyReturn" =>
            IF Rejected(sessionLeads, last'.rec.lead)
            THEN /\ error' # Null
                 /\ sessionLeads' = sessionLeads
                 /\ EmailStored(sessionLeads, last'.rec.lead.email) =>
                      error' = DuplicateMessage
            ELSE error' = Null
       /\ (error # Null /\ error' = Null) =>
            \/ last'.op = "submit"
            \/ /\ last'.op = "notifyReturn"
               /\ ~Rejected(sessionLeads, last'.rec.lead)]_vars

\* the duplicate error on the entry form after "Submit Another Lead", with
\* no attempt in flight
C21_Witness ==
    /\ last.op = "reset"
    /\ ~submitted
    /\ error = DuplicateMessage
    /\ att = EmptyBag
    /\ SessionCount = 1

====
